---- MODULE Spec2Model ----
(***************************************************************************)
(* Model of backend/ai_generator.py: the ToolCallState round tracker and   *)
(* AIGenerator.generate_response, the round-bounded tool-calling loop.     *)
(*                                                                         *)
(* One behaviour is one generate_response run.  The Anthropic client and   *)
(* the tool manager are the environment: every backend call either returns *)
(* a response drawn from a small set or raises, every execute_tool call    *)
(* either returns a text drawn from a small set or raises.  The variables  *)
(* api_calls and tool_exec_calls are the call logs a mock client / mock    *)
(* tool manager would keep (arguments and outcome of every call); exit_via *)
(* remembers which way the while loop was left.  The actions never read    *)
(* them.  heap, messages_id and updated_id keep the identity of the        *)
(* message list objects, which Python passes by reference: messages and    *)
(* updated_messages hold the contents of the lists those names are bound   *)
(* to.                                                                     *)
(*                                                                         *)
(* SpecTracker is a second specification over the same variables: a        *)
(* ToolCallState driven directly through its three methods, with           *)
(* tracker_ops the log of the calls made on it.                            *)
(***************************************************************************)
EXTENDS Integers, Sequences, FiniteSets, TLC

\* ------------------------------------------------------------------ bounds
\* Largest max_tool_rounds a run is started with.
MaxRounds == 2
\* Largest number of content blocks in one backend response.
MaxBlocks == 2
\* Largest number of calls made on a ToolCallState that is used directly.
MaxOps == 4

\* ------------------------------------------------------- python values
\* Optional[...] arguments: None, or a present value.
None == [none |-> TRUE]
Some(v) == [none |-> FALSE, val |-> v]

\* Python truthiness of an Optional[str] / Optional[List] / object argument.
TruthyStr(x) == x # None /\ x.val # ""
TruthyList(x) == x # None /\ x.val # <<>>
TruthyObj(x) == x # None

\* AIGenerator.SYSTEM_PROMPT (the text is abbreviated; only its identity and
\* its position in system_content matter).
SYSTEM_PROMPT == "SYSTEM_PROMPT"

\* self.base_params built in AIGenerator.__init__.
base_params == [model |-> "model", temperature |-> 0, max_tokens |-> 800]

\* ----------------------------------------------------- environment values
Queries == {"query"}
Histories == {None, Some(""), Some("User: q0\nAssistant: a0")}
ToolDefs == <<"get_course_outline", "search_course_content">>
ToolsArgs == {None, Some(<<>>), Some(ToolDefs)}
ToolManagers == {None, Some("tool_manager")}

\* Content blocks of a backend response.
TextBlock(t) == [type |-> "text", text |-> t]
ToolUseBlock(i, n, inp) == [type |-> "tool_use", id |-> i, name |-> n, input |-> inp]

ToolUseBlocks ==
    { ToolUseBlock("toolu_1", "get_course_outline", [course |-> "MCP"]),
      ToolUseBlock("toolu_2", "search_course_content", [query |-> "lesson 4"]) }
Blocks == ToolUseBlocks \cup {TextBlock("let me look that up")}

\* Sequences of at most n elements of S.
SeqUpTo(S, n) == UNION { [1..k -> S] : k \in 0..n }

\* The tool-invocation blocks of a content list, in order.
ToolUses(content) == SelectSeq(content, LAMBDA b : b.type = "tool_use")

\* Invocation ids are unique within one response.
UniqueIds(content) ==
    \A i, j \in 1..Len(content) :
        (i # j /\ content[i].type = "tool_use" /\ content[j].type = "tool_use")
            => content[i].id # content[j].id

\* The model's text comes before its tool invocations.
TextFirst(content) ==
    \A i, j \in 1..Len(content) :
        (content[i].type = "tool_use" /\ content[j].type # "tool_use") => j < i

\* Responses whose stop_reason is "tool_use": the block lists of at most
\* MaxBlocks blocks, the empty one and the ones without a tool-invocation
\* block included.
ToolUseResponses ==
    { [stop_reason |-> "tool_use", content |-> c] :
        c \in { s \in SeqUpTo(Blocks, MaxBlocks) : UniqueIds(s) /\ TextFirst(s) } }

\* Responses that end the turn: the first content block is a text block.
AnswerTexts == {"answer A", "answer B"}
EndTurnResponses ==
    { [stop_reason |-> "end_turn", content |-> <<TextBlock(t)>>] : t \in AnswerTexts }

\* What the backend may answer to a request: it asks for a tool only when
\* the request offered tools.
BackendResponses(params) ==
    EndTurnResponses \cup
        (IF "tools" \in DOMAIN params THEN ToolUseResponses ELSE {})

\* Texts execute_tool may return.
ToolResultTexts == {"", "Tool result"}

\* ------------------------------------------------------------ ToolCallState
\* ToolCallState.__init__
ToolCallState(max_rounds) ==
    [max_rounds |-> max_rounds, current_round |-> 0, tool_calls_made |-> <<>>]

\* Off-by-one loop guard: a round may still start at the ceiling.
can_make_more_calls_inclusive(ts) == ts.current_round <= ts.max_rounds

\* ToolCallState.can_make_more_calls
can_make_more_calls(ts) == ts.current_round < ts.max_rounds

\* ToolCallState.increment_round
increment_round(ts) == [ts EXCEPT !.current_round = @ + 1]

\* The record is inserted at the front of the log.
add_tool_call_at_front(ts, tool_name, params, result) ==
    [ts EXCEPT !.tool_calls_made =
        << [round |-> ts.current_round,
            tool |-> tool_name,
            params |-> params,
            result_length |-> IF TruthyStr(result) THEN Len(result.val) ELSE 0] >>
        \o @]

\* The record carries the 1-based number of the round.
add_tool_call_one_based(ts, tool_name, params, result) ==
    [ts EXCEPT !.tool_calls_made =
        Append(@, [round |-> ts.current_round + 1,
                   tool |-> tool_name,
                   params |-> params,
                   result_length |-> IF TruthyStr(result) THEN Len(result.val) ELSE 0])]

\* ToolCallState.add_tool_call; result is None or a str, falsy when None or
\* empty.
add_tool_call(ts, tool_name, params, result) ==
    [ts EXCEPT !.tool_calls_made =
        Append(@, [round |-> ts.current_round,
                   tool |-> tool_name,
                   params |-> params,
                   result_length |-> IF TruthyStr(result) THEN Len(result.val) ELSE 0])]

\* ------------------------------------------------------------------- state
VARIABLES
    pc,                \* position of the run
    query,             \* generate_response arguments
    conversation_history,
    tools,
    tool_manager,
    system_content,    \* locals of generate_response
    messages,
    tool_state,
    response,
    updated_messages,  \* locals of _execute_tool_round
    tool_results,
    tools_executed,
    idx,               \* position of the for loop over response.content
    result,            \* value returned by generate_response
    api_calls,         \* log of client.messages.create calls
    tool_exec_calls,   \* log of tool_manager.execute_tool calls
    exit_via,          \* how the while loop was left
    heap,              \* contents of the message list objects created so far
    messages_id,       \* the list object the name messages is bound to
    updated_id,        \* the list object updated_messages is bound to
    tracker_ops        \* log of the calls made on a ToolCallState used directly

vars == << pc, query, conversation_history, tools, tool_manager, system_content,
           messages, tool_state, response, updated_messages, tool_results,
           tools_executed, idx, result, api_calls, tool_exec_calls, exit_via,
           heap, messages_id, updated_id, tracker_ops >>

args == << query, conversation_history, tools, tool_manager, system_content >>
round_locals ==
    << updated_messages, updated_id, tool_results, tools_executed, idx >>

\* The AIGenerator has been constructed; no run has started.
Init ==
    /\ pc = "idle"
    /\ query = ""
    /\ conversation_history = None
    /\ tools = None
    /\ tool_manager = None
    /\ system_content = ""
    /\ messages = <<>>
    /\ tool_state = ToolCallState(0)
    /\ response = None
    /\ updated_messages = <<>>
    /\ tool_results = <<>>
    /\ tools_executed = FALSE
    /\ idx = 0
    /\ result = None
    /\ api_calls = <<>>
    /\ tool_exec_calls = <<>>
    /\ exit_via = "none"
    /\ heap = <<>>
    /\ messages_id = 0
    /\ updated_id = 0
    /\ tracker_ops = <<>>

\* ------------------------------------------------------- request building
\* system_content of generate_response.
SystemContent(history) ==
    IF TruthyStr(history)
        THEN SYSTEM_PROMPT \o "\n\nPrevious conversation:\n" \o history.val
        ELSE SYSTEM_PROMPT

\* Tools are offered whenever a tool list is given, executor or not.
LoopParams_tools_only(msgs, sys, tls, tm) ==
    LET p == base_params @@ [messages |-> msgs, system |-> sys]
    IN  IF TruthyList(tls)
            THEN p @@ [tools |-> tls.val, tool_choice |-> [type |-> "auto"]]
            ELSE p

\* The invocation log of the round tracker is sent along with the request.
LoopParams_sends_log(msgs, sys, tls, tm) ==
    LET p == base_params @@ [messages |-> msgs, system |-> sys,
                             metadata |-> tool_state.tool_calls_made]
    IN  IF TruthyList(tls) /\ TruthyObj(tm)
            THEN p @@ [tools |-> tls.val, tool_choice |-> [type |-> "auto"]]
            ELSE p

\* api_params of one loop iteration.
LoopParams(msgs, sys, tls, tm) ==
    LET p == base_params @@ [messages |-> msgs, system |-> sys]
    IN  IF TruthyList(tls) /\ TruthyObj(tm)
            THEN p @@ [tools |-> tls.val, tool_choice |-> [type |-> "auto"]]
            ELSE p

\* The synthesis request is built like a loop request, tools included.
FinalParams_with_tools(msgs, sys) ==
    base_params @@ [messages |-> msgs, system |-> sys]
                @@ [tools |-> ToolDefs, tool_choice |-> [type |-> "auto"]]

\* The synthesis request carries the query alone instead of the transcript.
FinalParams_query_only(msgs, sys) ==
    base_params @@ [messages |-> <<msgs[1]>>, system |-> sys]

\* The synthesis request carries the static prompt, the history left out.
FinalParams_static_system(msgs, sys) ==
    base_params @@ [messages |-> msgs, system |-> SYSTEM_PROMPT]

\* final_params of _make_final_response.
FinalParams(msgs, sys) == base_params @@ [messages |-> msgs, system |-> sys]

\* response.content[0].text
ResponseText(resp) == resp.content[1].text

\* The result is tagged with the tool's name instead of the invocation id.
ToolResultBlock_by_name(content_block, tool_result) ==
    [type |-> "tool_result",
     tool_use_id |-> content_block.name,
     content |-> tool_result]

\* One tool_result block of _execute_tool_round.
ToolResultBlock(content_block, tool_result) ==
    [type |-> "tool_result",
     tool_use_id |-> content_block.id,
     content |-> tool_result]

\* One entry of the client's call log: the keyword arguments (params is
\* their value when the call is made, messages_ref the list object passed as
\* messages), whether the call came from _make_final_response, the round
\* counter when it was made, and what the call returned (None when it raised).
ApiCall(params, final, returned) ==
    [params |-> params, final |-> final, round |-> tool_state.current_round,
     returned |-> returned, messages_ref |-> messages_id]

\* One entry of the tool manager's call log: the block executed, what
\* execute_tool returned (None when it raised), and the number of backend
\* calls made before it.
ToolExecCall(content_block, returned) ==
    [block |-> content_block, returned |-> returned,
     api_calls_before |-> Len(api_calls)]

\* updated_messages is bound to messages itself, not to a copy.
list_alias(id, fresh) == id

\* list.copy(): the result is a new list object.
list_copy(id, fresh) == fresh

\* The heap after list object id is given the contents list.
HeapPut(h, id, list) ==
    IF id \in DOMAIN h THEN [h EXCEPT ![id] = list] ELSE Append(h, list)

\* --------------------------------------------------------------- actions
\* generate_response is entered: system_content, messages and tool_state are
\* initialised.
GenerateResponse ==
    /\ pc = "idle"
    /\ \E q \in Queries, h \in Histories, t \in ToolsArgs,
          tm \in ToolManagers, n \in 0..MaxRounds :
        /\ query' = q
        /\ conversation_history' = h
        /\ tools' = t
        /\ tool_manager' = tm
        /\ system_content' = SystemContent(h)
        /\ messages' = << [role |-> "user", content |-> q] >>
        /\ heap' = << << [role |-> "user", content |-> q] >> >>
        /\ messages_id' = 1
        /\ tool_state' = ToolCallState(n)
    /\ pc' = "loop"
    /\ UNCHANGED << tracker_ops, response, round_locals, result, api_calls,
                    tool_exec_calls, exit_via >>

\* The direct answer is not returned: the loop is left and the synthesis call
\* made.
DirectAnswer_falls_through ==
    /\ pc = "loop"
    /\ can_make_more_calls(tool_state)
    /\ LET params == LoopParams(messages, system_content, tools, tool_manager)
       IN  \E resp \in BackendResponses(params) :
                /\ api_calls' = Append(api_calls, ApiCall(params, FALSE, Some(resp)))
                /\ resp.stop_reason # "tool_use"
                /\ response' = resp
    /\ pc' = "final"
    /\ UNCHANGED << tracker_ops, args, messages, messages_id, heap,
                    tool_state, round_locals, result, tool_exec_calls,
                    exit_via >>

\* A loop iteration whose backend call returns a response that does not ask
\* for a tool: its text is returned.
DirectAnswer ==
    /\ pc = "loop"
    /\ can_make_more_calls(tool_state)
    /\ LET params == LoopParams(messages, system_content, tools, tool_manager)
       IN  \E resp \in BackendResponses(params) :
                /\ api_calls' = Append(api_calls, ApiCall(params, FALSE, Some(resp)))
                /\ resp.stop_reason # "tool_use"
                /\ response' = resp
                /\ result' = Some(ResponseText(resp))
    /\ pc' = "returned"
    /\ UNCHANGED << tracker_ops, args, messages, messages_id, heap,
                    tool_state, round_locals, tool_exec_calls, exit_via >>

\* A loop iteration whose backend call returns stop_reason "tool_use":
\* _execute_tool_round is entered and the assistant message is appended to
\* its copy of the messages.
BeginToolRound ==
    /\ pc = "loop"
    /\ can_make_more_calls(tool_state)
    /\ LET params == LoopParams(messages, system_content, tools, tool_manager)
       IN  \E resp \in BackendResponses(params) :
                /\ api_calls' = Append(api_calls, ApiCall(params, FALSE, Some(resp)))
                /\ resp.stop_reason = "tool_use"
                /\ response' = resp
                /\ updated_messages' =
                       Append(messages, [role |-> "assistant", content |-> resp.content])
                /\ updated_id' = list_copy(messages_id, Len(heap) + 1)
                /\ heap' = HeapPut(heap, updated_id', updated_messages')
    /\ tool_results' = <<>>
    /\ tools_executed' = FALSE
    /\ idx' = 1
    /\ pc' = "exec"
    /\ UNCHANGED << tracker_ops, args, messages, messages_id, tool_state,
                    result, tool_exec_calls, exit_via >>

\* The exception of the backend call is caught and the run falls back to the
\* synthesis call.
BackendError_falls_back ==
    /\ pc = "loop"
    /\ can_make_more_calls(tool_state)
    /\ api_calls' = Append(api_calls,
           ApiCall(LoopParams(messages, system_content, tools, tool_manager),
                   FALSE, None))
    /\ pc' = "final"
    /\ UNCHANGED << tracker_ops, args, messages, messages_id, heap,
                    tool_state, response, round_locals, result,
                    tool_exec_calls, exit_via >>

\* A loop iteration whose backend call raises: the exception leaves
\* generate_response.
BackendError ==
    /\ pc = "loop"
    /\ can_make_more_calls(tool_state)
    /\ api_calls' = Append(api_calls,
           ApiCall(LoopParams(messages, system_content, tools, tool_manager),
                   FALSE, None))
    /\ pc' = "raised"
    /\ UNCHANGED << tracker_ops, args, messages, messages_id, heap,
                    tool_state, response, round_locals, result,
                    tool_exec_calls, exit_via >>

\* The for loop meets a block that is not a tool invocation.
SkipBlock ==
    /\ pc = "exec"
    /\ idx <= Len(response.content)
    /\ response.content[idx].type # "tool_use"
    /\ idx' = idx + 1
    /\ UNCHANGED << tracker_ops, pc, args, messages, messages_id, heap,
                    tool_state, response, updated_messages, updated_id,
                    tool_results, tools_executed, result, api_calls,
                    tool_exec_calls, exit_via >>

\* The for loop is left after the first tool executed (the return sits inside
\* the loop body).
ExecuteTool_then_stop ==
    /\ pc = "exec"
    /\ idx <= Len(response.content)
    /\ response.content[idx].type = "tool_use"
    /\ LET content_block == response.content[idx]
       IN  \E tool_result \in ToolResultTexts :
                /\ tool_exec_calls' = Append(tool_exec_calls,
                       ToolExecCall(content_block, Some(tool_result)))
                /\ tool_state' = add_tool_call(tool_state, content_block.name,
                                               content_block.input,
                                               Some(tool_result))
                /\ tool_results' = Append(tool_results,
                       ToolResultBlock(content_block, tool_result))
    /\ tools_executed' = TRUE
    /\ idx' = Len(response.content) + 1
    /\ UNCHANGED << tracker_ops, pc, args, messages, messages_id, heap,
                    response, updated_messages, updated_id, result, api_calls,
                    exit_via >>

\* An empty tool result is treated as no result: nothing is collected for it
\* and the round does not count as having executed a tool.
ExecuteTool_drops_empty ==
    /\ pc = "exec"
    /\ idx <= Len(response.content)
    /\ response.content[idx].type = "tool_use"
    /\ LET content_block == response.content[idx]
       IN  \E tool_result \in ToolResultTexts :
                /\ tool_exec_calls' = Append(tool_exec_calls,
                       ToolExecCall(content_block, Some(tool_result)))
                /\ tool_state' = add_tool_call(tool_state, content_block.name,
                                               content_block.input,
                                               Some(tool_result))
                /\ tool_results' =
                       IF tool_result # ""
                           THEN Append(tool_results,
                                    ToolResultBlock(content_block, tool_result))
                           ELSE tool_results
                /\ tools_executed' = (tools_executed \/ tool_result # "")
    /\ idx' = idx + 1
    /\ UNCHANGED << tracker_ops, pc, args, messages, messages_id, heap,
                    response, updated_messages, updated_id, result,
                    api_calls, exit_via >>

\* The for loop meets a tool invocation and execute_tool returns: the call is
\* recorded and its tool_result block collected.
ExecuteTool ==
    /\ pc = "exec"
    /\ idx <= Len(response.content)
    /\ response.content[idx].type = "tool_use"
    /\ LET content_block == response.content[idx]
       IN  \E tool_result \in ToolResultTexts :
                /\ tool_exec_calls' = Append(tool_exec_calls,
                       ToolExecCall(content_block, Some(tool_result)))
                /\ tool_state' = add_tool_call(tool_state, content_block.name,
                                               content_block.input,
                                               Some(tool_result))
                /\ tool_results' = Append(tool_results,
                       ToolResultBlock(content_block, tool_result))
    /\ tools_executed' = TRUE
    /\ idx' = idx + 1
    /\ UNCHANGED << tracker_ops, pc, args, messages, messages_id, heap,
                    response, updated_messages, updated_id, result,
                    api_calls, exit_via >>

\* The exception of execute_tool is swallowed and the for loop goes on.
ToolError_swallowed ==
    /\ pc = "exec"
    /\ idx <= Len(response.content)
    /\ response.content[idx].type = "tool_use"
    /\ tool_exec_calls' = Append(tool_exec_calls,
           ToolExecCall(response.content[idx], None))
    /\ idx' = idx + 1
    /\ UNCHANGED << tracker_ops, pc, args, messages, messages_id, heap,
                    tool_state, response, updated_messages, updated_id,
                    tool_results, tools_executed, result, api_calls,
                    exit_via >>

\* The for loop meets a tool invocation and execute_tool raises: the
\* exception leaves _execute_tool_round and generate_response.
ToolError ==
    /\ pc = "exec"
    /\ idx <= Len(response.content)
    /\ response.content[idx].type = "tool_use"
    /\ tool_exec_calls' = Append(tool_exec_calls,
           ToolExecCall(response.content[idx], None))
    /\ pc' = "raised"
    /\ UNCHANGED << tracker_ops, args, messages, messages_id, heap,
                    tool_state, response, round_locals, result, api_calls,
                    exit_via >>

\* The tool results are appended to messages, not to the copy that holds the
\* assistant message.
RoundMessages_on_original ==
    IF tool_results # <<>>
        THEN Append(messages, [role |-> "user", content |-> tool_results])
        ELSE messages

\* updated_messages as _execute_tool_round returns it.
RoundMessages ==
    IF tool_results # <<>>
        THEN Append(updated_messages, [role |-> "user", content |-> tool_results])
        ELSE updated_messages

\* _execute_tool_round returns with tools_executed true: messages is
\* replaced and the round counter incremented.
CompleteToolRound ==
    /\ pc = "exec"
    /\ idx > Len(response.content)
    /\ tools_executed
    /\ messages' = RoundMessages
    /\ heap' = HeapPut(heap, updated_id, RoundMessages)
    /\ messages_id' = updated_id
    /\ tool_state' = increment_round(tool_state)
    /\ pc' = "loop"
    /\ UNCHANGED << tracker_ops, args, response, round_locals, result,
                    api_calls, tool_exec_calls, exit_via >>

\* The round counter is incremented before tools_executed is looked at.
BreakNoTools_increments ==
    /\ pc = "exec"
    /\ idx > Len(response.content)
    /\ ~tools_executed
    /\ messages' = RoundMessages
    /\ heap' = HeapPut(heap, updated_id, RoundMessages)
    /\ messages_id' = updated_id
    /\ tool_state' = increment_round(tool_state)
    /\ exit_via' = "break"
    /\ pc' = "final"
    /\ UNCHANGED << tracker_ops, args, response, round_locals, result,
                    api_calls, tool_exec_calls >>

\* _execute_tool_round returns with tools_executed false: messages is
\* replaced and the while loop is left by break.
BreakNoTools ==
    /\ pc = "exec"
    /\ idx > Len(response.content)
    /\ ~tools_executed
    /\ messages' = RoundMessages
    /\ heap' = HeapPut(heap, updated_id, RoundMessages)
    /\ messages_id' = updated_id
    /\ exit_via' = "break"
    /\ pc' = "final"
    /\ UNCHANGED << tracker_ops, args, tool_state, response, round_locals,
                    result, api_calls, tool_exec_calls >>

\* At the ceiling the loop neither runs its body nor ends.
CeilingExit_spins ==
    /\ pc = "loop"
    /\ ~can_make_more_calls(tool_state)
    /\ UNCHANGED vars

\* The while condition is false: the loop is left.
CeilingExit ==
    /\ pc = "loop"
    /\ ~can_make_more_calls(tool_state)
    /\ exit_via' = "ceiling"
    /\ pc' = "final"
    /\ UNCHANGED << tracker_ops, args, messages, messages_id, heap,
                    tool_state, response, round_locals, result, api_calls,
                    tool_exec_calls >>

\* _make_final_response: the backend call returns and its text is returned.
\* The request offers no tools, so the response ends the turn.
FinalAnswer ==
    /\ pc = "final"
    /\ LET params == FinalParams(messages, system_content)
       IN  \E final_response \in EndTurnResponses :
                /\ api_calls' = Append(api_calls,
                       ApiCall(params, TRUE, Some(final_response)))
                /\ result' = Some(ResponseText(final_response))
    /\ pc' = "returned"
    /\ UNCHANGED << tracker_ops, args, messages, messages_id, heap,
                    tool_state, response, round_locals, tool_exec_calls,
                    exit_via >>

\* _make_final_response: the backend call raises.
FinalError ==
    /\ pc = "final"
    /\ api_calls' = Append(api_calls,
           ApiCall(FinalParams(messages, system_content), TRUE, None))
    /\ pc' = "raised"
    /\ UNCHANGED << tracker_ops, args, messages, messages_id, heap,
                    tool_state, response, round_locals, result,
                    tool_exec_calls, exit_via >>

Next ==
    \/ GenerateResponse
    \/ DirectAnswer
    \/ BeginToolRound
    \/ BackendError
    \/ SkipBlock
    \/ ExecuteTool
    \/ ToolError
    \/ CompleteToolRound
    \/ BreakNoTools
    \/ CeilingExit
    \/ FinalAnswer
    \/ FinalError

Spec == Init /\ [][Next]_vars

\* The run is one sequential thread: as long as a step is possible (every
\* backend call and every tool execution returns or raises), one is taken.
FairSpec == Spec /\ WF_vars(Next)

\* ------------------------------------------- ToolCallState used directly
\* A ToolCallState driven by its own methods, outside generate_response, as
\* TestToolCallState does.  tracker_ops logs every call and what it returned.
TrackerResults == {None, Some(""), Some("result text")}

\* A fresh ToolCallState(max_rounds = N); no AIGenerator run is involved.
TrackerInit ==
    /\ pc = "tracker"
    /\ query = ""
    /\ conversation_history = None
    /\ tools = None
    /\ tool_manager = None
    /\ system_content = ""
    /\ messages = <<>>
    /\ \E N \in 0..MaxRounds : tool_state = ToolCallState(N)
    /\ response = None
    /\ updated_messages = <<>>
    /\ tool_results = <<>>
    /\ tools_executed = FALSE
    /\ idx = 0
    /\ result = None
    /\ api_calls = <<>>
    /\ tool_exec_calls = <<>>
    /\ exit_via = "none"
    /\ heap = <<>>
    /\ messages_id = 0
    /\ updated_id = 0
    /\ tracker_ops = <<>>

tracker_rest == << pc, args, messages, response, round_locals, result,
                   api_calls, tool_exec_calls, exit_via, heap, messages_id >>

\* state.can_make_more_calls()
TrackerCanMakeMoreCalls ==
    /\ pc = "tracker"
    /\ Len(tracker_ops) < MaxOps
    /\ tracker_ops' = Append(tracker_ops,
           [op |-> "can_make_more_calls",
            returned |-> can_make_more_calls(tool_state)])
    /\ UNCHANGED << tool_state, tracker_rest >>

\* state.increment_round()
TrackerIncrementRound ==
    /\ pc = "tracker"
    /\ Len(tracker_ops) < MaxOps
    /\ tool_state' = increment_round(tool_state)
    /\ tracker_ops' = Append(tracker_ops, [op |-> "increment_round"])
    /\ UNCHANGED tracker_rest

\* state.add_tool_call(tool_name, params, result)
TrackerAddToolCall ==
    /\ pc = "tracker"
    /\ Len(tracker_ops) < MaxOps
    /\ \E b \in ToolUseBlocks, r \in TrackerResults :
          /\ tool_state' = add_tool_call(tool_state, b.name, b.input, r)
          /\ tracker_ops' = Append(tracker_ops,
                 [op |-> "add_tool_call", tool_name |-> b.name,
                  params |-> b.input, result |-> r])
    /\ UNCHANGED tracker_rest

TrackerNext ==
    \/ TrackerCanMakeMoreCalls
    \/ TrackerIncrementRound
    \/ TrackerAddToolCall

SpecTracker == TrackerInit /\ [][TrackerNext]_vars

\* ================================================================ claims
Ended == pc \in {"returned", "raised"}
LastApiCall == api_calls[Len(api_calls)]
OffersTools(call) == "tools" \in DOMAIN call.params \/ "tool_choice" \in DOMAIN call.params

\* C1: a run with max_tool_rounds = N makes at most N + 1 backend calls, the
\* in-loop calls and the synthesis call counted together.
C1_AtMostNPlus1Calls ==
    Len(api_calls) <= tool_state.max_rounds + 1

\* A finished run at the largest ceiling that made N + 1 calls.
C1_Witness ==
    /\ pc = "returned"
    /\ tool_state.max_rounds = MaxRounds
    /\ Len(api_calls) = MaxRounds + 1

\* C2 (as claimed): a run makes N + 1 backend calls only if each of the rounds
\* 0 .. N-1 executed at least one tool.
C2_NPlus1OnlyIfEveryRoundRanATool ==
    Len(api_calls) = tool_state.max_rounds + 1 =>
        \A r \in 0 .. tool_state.max_rounds - 1 :
            \E i \in DOMAIN tool_state.tool_calls_made :
                tool_state.tool_calls_made[i].round = r

\* C3 (as claimed): after a "tool_use" response without a tool-invocation
\* block the run gives no answer and makes no synthesis call.
C3_ZeroToolBlocksIsFatal ==
    exit_via = "break" =>
        /\ result = None
        /\ pc # "returned"
        /\ \A i \in DOMAIN api_calls : ~api_calls[i].final

\* C4: an in-loop response that does not ask for a tool is the last backend
\* call of the run, and the run returns its text; when it is the first
\* response, one call was made, no tool was executed and the round counter is 0.
C4_ShortCircuit ==
    \A i \in DOMAIN api_calls :
        LET c == api_calls[i]
        IN  (~c.final /\ c.returned # None /\ c.returned.val.stop_reason # "tool_use")
            => /\ i = Len(api_calls)
               /\ pc = "returned"
               /\ result = Some(c.returned.val.content[1].text)
               /\ exit_via = "none"
               /\ (i = 1 => /\ tool_exec_calls = <<>>
                            /\ tool_state.current_round = 0
                            /\ tool_state.tool_calls_made = <<>>)

\* The first response answers directly although tools were offered.
C4_Witness ==
    /\ Len(api_calls) = 1
    /\ ~api_calls[1].final
    /\ "tools" \in DOMAIN api_calls[1].params
    /\ api_calls[1].returned # None
    /\ api_calls[1].returned.val.stop_reason = "end_turn"
    /\ pc = "returned"

\* C5: when the loop is left at the round ceiling, exactly one more request is
\* made, with the accumulated transcript and the system content, and its text
\* is the result of the run.
C5_CeilingSynthesis ==
    exit_via = "ceiling" =>
        /\ tool_state.current_round = tool_state.max_rounds
        /\ pc = "final" =>
              /\ Len(api_calls) = tool_state.max_rounds
              /\ \A i \in DOMAIN api_calls : ~api_calls[i].final
        /\ Ended =>
              /\ Len(api_calls) = tool_state.max_rounds + 1
              /\ \A i \in DOMAIN api_calls : api_calls[i].final <=> i = Len(api_calls)
              /\ LastApiCall.params.messages = messages
              /\ Len(messages) = 1 + 2 * tool_state.max_rounds
              /\ LastApiCall.params.system = system_content
              /\ pc = "returned" =>
                    /\ LastApiCall.returned # None
                    /\ result = Some(LastApiCall.returned.val.content[1].text)
              /\ pc = "raised" =>
                    /\ LastApiCall.returned = None
                    /\ result = None

\* Every round up to a ceiling of at least 1 executed a tool and the
\* synthesis text was returned.
C5_Witness ==
    /\ exit_via = "ceiling"
    /\ pc = "returned"
    /\ tool_state.max_rounds >= 1
    /\ Len(tool_exec_calls) >= tool_state.max_rounds
    /\ LastApiCall.final

\* C6: the synthesis request carries neither tools nor tool_choice; a request
\* that carries them is an in-loop request made while current_round < max_rounds.
C6_FinalCallOffersNoTools ==
    \A i \in DOMAIN api_calls :
        LET c == api_calls[i]
        IN  /\ c.final => ("tools" \notin DOMAIN c.params
                            /\ "tool_choice" \notin DOMAIN c.params)
            /\ OffersTools(c) => (~c.final /\ c.round < tool_state.max_rounds)

\* A synthesis request made after a request that offered tools.
C6_Witness ==
    \E i, j \in DOMAIN api_calls :
        /\ i < j
        /\ "tools" \in DOMAIN api_calls[i].params
        /\ api_calls[j].final

\* C7: when execute_tool raises, the run ends with the failure: that call is
\* the last tool execution, the for loop stays at the failing block, no backend
\* call follows the response that asked for the tool, the round counter keeps
\* the value it had at that request, and the log holds records of the earlier,
\* successful executions only.
C7_ToolFailurePropagates ==
    \A i \in DOMAIN tool_exec_calls :
        tool_exec_calls[i].returned = None =>
            /\ i = Len(tool_exec_calls)
            /\ pc = "raised"
            /\ result = None
            /\ idx <= Len(response.content)
            /\ response.content[idx] = tool_exec_calls[i].block
            /\ ~LastApiCall.final
            /\ LastApiCall.returned = Some(response)
            /\ LastApiCall.round = tool_state.current_round
            /\ LastApiCall.params.messages = messages
            /\ Len(tool_state.tool_calls_made) = i - 1

\* A tool raised while another tool-invocation block of the round was still
\* to be executed.
C7_Witness ==
    /\ tool_exec_calls # <<>>
    /\ tool_exec_calls[Len(tool_exec_calls)].returned = None
    /\ idx < Len(response.content)
    /\ response.content[idx + 1].type = "tool_use"

\* A round that executed at least one tool ends: the transcript is the old
\* one plus the assistant message and one user message with the tool results.
C8_RoundStep ==
    (pc = "exec" /\ pc' \notin {"exec", "raised"} /\ tools_executed) =>
        /\ Len(messages') = Len(messages) + 2
        /\ SubSeq(messages', 1, Len(messages)) = messages
        /\ messages'[Len(messages) + 1] =
               [role |-> "assistant", content |-> response.content]
        /\ messages'[Len(messages) + 2] =
               [role |-> "user", content |-> tool_results]

\* Every request starts with the user query; a request made right after k
\* completed tool rounds (every in-loop request, and the synthesis request at
\* the ceiling) carries 1 + 2k messages.
C8_Requests ==
    \A i \in DOMAIN api_calls :
        LET c == api_calls[i]
        IN  /\ c.params.messages[1] = [role |-> "user", content |-> query]
            /\ (~c.final \/ exit_via = "ceiling") =>
                   Len(c.params.messages) = 1 + 2 * c.round

RECURSIVE TranscriptResults(_, _)
TranscriptResults(msgs, i) ==
    IF i > Len(msgs) THEN <<>>
    ELSE (IF msgs[i].role = "user" THEN msgs[i].content ELSE <<>>)
             \o TranscriptResults(msgs, i + 1)

\* The tool_result block that answers one successful execute_tool call.
ExpectedResult(call) ==
    [type |-> "tool_result", tool_use_id |-> call.block.id,
     content |-> call.returned.val]

\* C9: in the transcript, the user message after an assistant message holds
\* one tool_result block per tool-invocation block of that assistant message,
\* in order, with the block's id; and the tool_result blocks of the transcript
\* are, in order, the ids and returned texts of the executions made.
C9_ResultsMatchInvocations ==
    /\ \A i \in DOMAIN messages :
        (messages[i].role = "assistant" /\ i < Len(messages)) =>
            LET uses == ToolUses(messages[i].content)
                res == messages[i + 1].content
            IN  /\ messages[i + 1].role = "user"
                /\ Len(res) = Len(uses)
                /\ \A k \in DOMAIN res :
                    /\ res[k].type = "tool_result"
                    /\ res[k].tool_use_id = uses[k].id
    /\ LET all == TranscriptResults(messages, 2)
       IN  /\ Len(all) <= Len(tool_exec_calls)
           /\ \A k \in DOMAIN all :
                /\ tool_exec_calls[k].returned # None
                /\ all[k] = ExpectedResult(tool_exec_calls[k])
           /\ pc \in {"loop", "final", "returned"} =>
                Len(all) = Len(tool_exec_calls)

\* A completed round with two tool invocations whose results differ.
C9_Witness ==
    \E i \in DOMAIN messages :
        /\ messages[i].role = "assistant"
        /\ i < Len(messages)
        /\ Len(ToolUses(messages[i].content)) = 2
        /\ messages[i + 1].content[1].content # messages[i + 1].content[2].content

\* C10: 0 <= current_round <= max_rounds in every state of a run.
C10_RoundWithinCeiling ==
    /\ 0 <= tool_state.current_round
    /\ tool_state.current_round <= tool_state.max_rounds

\* The counter reached a ceiling of at least 1.
C10_Witness ==
    /\ tool_state.max_rounds >= 1
    /\ tool_state.current_round = tool_state.max_rounds

\* The number of rounds completed with tool results in the transcript.
CompletedToolRounds ==
    Cardinality({ i \in 2 .. Len(messages) : messages[i].role = "user" })

\* The counter changes only when a round ends with a tool executed, and then
\* by exactly 1.
C11_Step ==
    /\ tool_state'.current_round # tool_state.current_round =>
          /\ tool_state'.current_round = tool_state.current_round + 1
          /\ pc = "exec"
          /\ idx > Len(response.content)
          /\ tools_executed
    /\ (pc = "exec" /\ pc' \notin {"exec", "raised"} /\ tools_executed) =>
          tool_state'.current_round = tool_state.current_round + 1

\* C11: the round counter advances by exactly 1 when a round completes with
\* at least one tool executed and in no other step (not on a direct answer, a
\* tool-use response without tool blocks, a failing tool or the synthesis
\* call), so it always equals the number of completed tool-executing rounds.
C11_CounterCountsToolRounds ==
    [][C11_Step]_vars /\ [](tool_state.current_round = CompletedToolRounds)

\* One round completed, then a tool-use response without tool blocks ended
\* the loop and the synthesis call was made.
C11_Witness ==
    /\ exit_via = "break"
    /\ tool_state.current_round = 1
    /\ Ended

\* A non-empty tool list and a tool executor were both supplied.
ToolsAndExecutorSupplied ==
    /\ tools # None
    /\ tools.val # <<>>
    /\ tool_manager # None

\* C12: an in-loop request carries the tool list, with tool_choice "auto",
\* if and only if a non-empty tool list and a tool executor were both
\* supplied; this holds in every round, the ones after a tool round included.
C12_ToolsOfferedIffSupplied ==
    \A i \in DOMAIN api_calls :
        LET c == api_calls[i]
        IN  ~c.final =>
              /\ "tools" \in DOMAIN c.params <=> ToolsAndExecutorSupplied
              /\ "tool_choice" \in DOMAIN c.params <=> ToolsAndExecutorSupplied
              /\ ToolsAndExecutorSupplied =>
                    /\ c.params.tools = tools.val
                    /\ c.params.tool_choice = [type |-> "auto"]

\* A request made after a completed tool round offers the tools again.
C12_Witness ==
    \E i \in DOMAIN api_calls :
        /\ ~api_calls[i].final
        /\ api_calls[i].round >= 1
        /\ "tools" \in DOMAIN api_calls[i].params

\* The tool-invocation blocks of the responses to the first n backend calls,
\* in order.
RECURSIVE RequestedTools(_)
RequestedTools(n) ==
    IF n = 0 THEN <<>>
    ELSE RequestedTools(n - 1) \o
            (IF api_calls[n].returned = None THEN <<>>
             ELSE ToolUses(api_calls[n].returned.val.content))

\* The blocks execute_tool was called for, in order.
ExecutedBlocks == [j \in DOMAIN tool_exec_calls |-> tool_exec_calls[j].block]

\* C13: when the response to request k + 1 asks for no tool after k tool
\* rounds, k < max_rounds, the run made exactly k + 1 backend calls, none of
\* them the synthesis call, executed exactly the tools requested in the k
\* rounds, each successfully, and returns the text of response k + 1.
C13_AnswerAfterKRounds ==
    \A i \in DOMAIN api_calls :
        LET c == api_calls[i]
            k == i - 1
        IN  (~c.final /\ c.returned # None /\ c.returned.val.stop_reason # "tool_use")
            => /\ k < tool_state.max_rounds
               /\ k = tool_state.current_round
               /\ Len(api_calls) = k + 1
               /\ \A j \in DOMAIN api_calls : ~api_calls[j].final
               /\ \A j \in 1 .. k :
                    /\ api_calls[j].returned # None
                    /\ api_calls[j].returned.val.stop_reason = "tool_use"
                    /\ ToolUses(api_calls[j].returned.val.content) # <<>>
               /\ ExecutedBlocks = RequestedTools(k)
               /\ \A j \in DOMAIN tool_exec_calls : tool_exec_calls[j].returned # None
               /\ pc = "returned"
               /\ result = Some(c.returned.val.content[1].text)

\* The scenario k = 1, N = 2 with one tool block: two backend calls, one
\* tool execution.
C13_Witness ==
    /\ tool_state.max_rounds = 2
    /\ pc = "returned"
    /\ Len(api_calls) = 2
    /\ ~api_calls[2].final
    /\ Len(api_calls[1].returned.val.content) = 1
    /\ Len(tool_exec_calls) = 1

\* C14: every run terminates: it reaches a returned text or a propagated
\* failure, whatever the ceiling and whatever the model answers.
C14_Terminates ==
    <>Ended

\* A run at the largest ceiling in which the model asked for tools in every
\* response of the loop has ended.
C14_Witness ==
    /\ Ended
    /\ tool_state.max_rounds = MaxRounds
    /\ tool_state.current_round = MaxRounds
    /\ \A i \in DOMAIN api_calls :
          ~api_calls[i].final =>
              (api_calls[i].returned # None
                  /\ api_calls[i].returned.val.stop_reason = "tool_use")

\* The executions made between backend call n and the next one.
ExecutionsAfter(n) ==
    { j \in DOMAIN tool_exec_calls : tool_exec_calls[j].api_calls_before = n }

\* C15: tool executions and backend requests are sequential and ordered: an
\* execution follows the in-loop response that asked for it, the executions
\* of one round follow the order of the tool-invocation blocks of that
\* response, all of them are made (and have returned) before the next backend
\* request, and the executions of a later round come after those of an
\* earlier one.
C15_SequentialOrder ==
    /\ \A j \in DOMAIN tool_exec_calls :
        LET e == tool_exec_calls[j]
            n == e.api_calls_before
            pos == Cardinality({ h \in ExecutionsAfter(n) : h <= j })
        IN  /\ n \in DOMAIN api_calls
            /\ ~api_calls[n].final
            /\ api_calls[n].returned # None
            /\ api_calls[n].returned.val.stop_reason = "tool_use"
            /\ pos <= Len(ToolUses(api_calls[n].returned.val.content))
            /\ e.block = ToolUses(api_calls[n].returned.val.content)[pos]
            /\ j > 1 => tool_exec_calls[j - 1].api_calls_before <= n
            /\ j < Len(tool_exec_calls) => e.returned # None
    /\ \A n \in DOMAIN api_calls :
        (n < Len(api_calls) /\ api_calls[n].returned # None) =>
            /\ Cardinality(ExecutionsAfter(n)) =
                   Len(ToolUses(api_calls[n].returned.val.content))
            /\ \A j \in ExecutionsAfter(n) : tool_exec_calls[j].returned # None

\* Two rounds, the first with two tool invocations, and a request after each.
C15_Witness ==
    /\ Len(api_calls) >= 3
    /\ Cardinality(ExecutionsAfter(1)) = 2
    /\ tool_exec_calls[1].block # tool_exec_calls[2].block
    /\ Cardinality(ExecutionsAfter(2)) >= 1

\* List a is a prefix of list b.
IsPrefix(a, b) == Len(a) <= Len(b) /\ SubSeq(b, 1, Len(a)) = a

\* C16: the transcript is append-only: the message list of each backend
\* request extends the message list of the previous request, and the list
\* object passed to a request still holds, at any later time, the messages it
\* held when the request was made.
C16_TranscriptAppendOnly ==
    \A i \in DOMAIN api_calls :
        /\ i > 1 => IsPrefix(api_calls[i - 1].params.messages,
                             api_calls[i].params.messages)
        /\ heap[api_calls[i].messages_ref] = api_calls[i].params.messages

\* Three requests, each with a longer message list in a list object of its
\* own.
C16_Witness ==
    /\ Len(api_calls) >= 3
    /\ Len(api_calls[1].params.messages) < Len(api_calls[2].params.messages)
    /\ Len(api_calls[2].params.messages) < Len(api_calls[3].params.messages)
    /\ api_calls[1].messages_ref # api_calls[2].messages_ref
    /\ api_calls[2].messages_ref # api_calls[3].messages_ref

\* The system text the run is to use: the base prompt alone when no history
\* is given (None, or the empty text), else the base prompt, the heading and
\* the history.
ExpectedSystem ==
    IF conversation_history = None \/ conversation_history.val = ""
        THEN SYSTEM_PROMPT
        ELSE SYSTEM_PROMPT \o "\n\nPrevious conversation:\n"
                           \o conversation_history.val

\* C17: every backend request of a run, in-loop or synthesis, carries the
\* same system text: the base prompt alone when no history is given, the base
\* prompt followed by the "Previous conversation:" heading and the history
\* when one is given.
C17_SystemContextFixed ==
    /\ pc # "idle" => system_content = ExpectedSystem
    /\ \A i \in DOMAIN api_calls : api_calls[i].params.system = ExpectedSystem

\* A run with a history made in-loop requests and the synthesis request.
C17_Witness ==
    /\ conversation_history # None
    /\ conversation_history.val # ""
    /\ Len(api_calls) >= 3
    /\ LastApiCall.final
    /\ LastApiCall.params.system # SYSTEM_PROMPT

\* C18: a backend call that raises, in the loop or in the synthesis, is not
\* retried: it is the last backend call of the run, no tool is executed after
\* it, and the run ends with the failure and no text.
C18_BackendFailurePropagates ==
    \A i \in DOMAIN api_calls :
        api_calls[i].returned = None =>
            /\ i = Len(api_calls)
            /\ pc = "raised"
            /\ result = None
            /\ \A j \in DOMAIN tool_exec_calls :
                  tool_exec_calls[j].api_calls_before < i

\* The second in-loop call raised after a round that executed a tool.
C18_Witness ==
    /\ Len(api_calls) = 2
    /\ ~api_calls[2].final
    /\ api_calls[2].returned = None
    /\ tool_exec_calls # <<>>

\* Number of increment_round calls among the first n logged calls.
IncrementsBefore(n) ==
    Cardinality({ i \in 1..n : tracker_ops[i].op = "increment_round" })

\* C19: on a fresh ToolCallState(max_rounds = N), after k increment_round
\* calls current_round is k, and every can_make_more_calls() made after k
\* increments returned TRUE exactly when k < N.
C19_CanMakeMoreCallsIffBelowCeiling ==
    pc = "tracker" =>
        /\ tool_state.current_round = IncrementsBefore(Len(tracker_ops))
        /\ \A i \in DOMAIN tracker_ops :
              tracker_ops[i].op = "can_make_more_calls" =>
                  (tracker_ops[i].returned
                      <=> IncrementsBefore(i) < tool_state.max_rounds)

\* One tracker answered TRUE below its ceiling and FALSE once it reached it.
C19_Witness ==
    /\ pc = "tracker"
    /\ tool_state.max_rounds >= 1
    /\ \E i, j \in DOMAIN tracker_ops :
          /\ i < j
          /\ tracker_ops[i].op = "can_make_more_calls"
          /\ tracker_ops[j].op = "can_make_more_calls"
          /\ tracker_ops[i].returned
          /\ ~tracker_ops[j].returned

\* Length of the result text of a logged add_tool_call, 0 when it is empty or
\* absent.
ExpectedResultLength(r) ==
    CASE r = None -> 0
      [] r = Some("") -> 0
      [] r = Some("result text") -> 11

\* The step is an add_tool_call.
IsAddToolCallStep ==
    /\ Len(tracker_ops') = Len(tracker_ops) + 1
    /\ tracker_ops'[Len(tracker_ops')].op = "add_tool_call"

C20_Step ==
    IsAddToolCallStep =>
        LET call == tracker_ops'[Len(tracker_ops')]
            made == tool_state.tool_calls_made
            made_after == tool_state'.tool_calls_made
            rec == made_after[Len(made_after)]
        IN  /\ Len(made_after) = Len(made) + 1
            /\ SubSeq(made_after, 1, Len(made)) = made
            /\ tool_state'.current_round = tool_state.current_round
            /\ tool_state'.max_rounds = tool_state.max_rounds
            /\ rec.tool = call.tool_name
            /\ rec.params = call.params
            /\ rec.round = tool_state.current_round
            /\ rec.result_length = ExpectedResultLength(call.result)

\* C20: each add_tool_call appends exactly one record at the end of
\* tool_calls_made, keeps the earlier records and the round counter, and the
\* new record holds the given tool name and params with result_length the
\* length of the result text, 0 when the result is empty or absent.
C20_AddToolCallAppendsOneRecord == [][C20_Step]_vars

\* Two records were added after an increment, one with a text result and one
\* with an empty or absent result.
C20_Witness ==
    /\ pc = "tracker"
    /\ tool_state.current_round >= 1
    /\ Len(tool_state.tool_calls_made) = 2
    /\ tool_state.tool_calls_made[1].result_length = 11
    /\ tool_state.tool_calls_made[2].result_length = 0
    /\ tool_state.tool_calls_made[1].tool # tool_state.tool_calls_made[2].tool

\* The tool_result blocks of the tools that ran after the n-th backend call,
\* rebuilt from what the tool manager was asked and what it returned.
ResultsAfterCall(n) ==
    LET ex == SelectSeq(tool_exec_calls,
                  LAMBDA e : e.api_calls_before = n /\ e.returned # None)
    IN  [k \in DOMAIN ex |->
            [type |-> "tool_result",
             tool_use_id |-> ex[k].block.id,
             content |-> ex[k].returned.val]]

\* The transcript after the first n backend calls, rebuilt from the query,
\* the responses the backend returned and the results the tools returned.
RECURSIVE TranscriptFromInputs(_)
TranscriptFromInputs(n) ==
    IF n = 0
        THEN << [role |-> "user", content |-> query] >>
        ELSE LET asked == Append(TranscriptFromInputs(n - 1),
                              [role |-> "assistant",
                               content |-> api_calls[n].returned.val.content])
             IN  IF ResultsAfterCall(n) # <<>>
                     THEN Append(asked, [role |-> "user",
                                         content |-> ResultsAfterCall(n)])
                     ELSE asked

\* The fields a request may carry.
RequestFields(call) ==
    {"model", "temperature", "max_tokens", "messages", "system"}
        \cup (IF ~call.final /\ TruthyList(tools) /\ TruthyObj(tool_manager)
                 THEN {"tools", "tool_choice"} ELSE {})

\* C21: the invocation log never reaches the backend: every request of a run
\* has only the fields model, temperature, max_tokens, messages, system and,
\* in the loop, tools and tool_choice, and each of them is determined by the
\* query, the history, the tools, the backend responses and the tool results,
\* whatever tool_calls_made holds.
C21_LogNeverSent ==
    \A i \in DOMAIN api_calls :
        LET c == api_calls[i]
        IN  /\ DOMAIN c.params = RequestFields(c)
            /\ c.params.model = base_params.model
            /\ c.params.temperature = base_params.temperature
            /\ c.params.max_tokens = base_params.max_tokens
            /\ c.params.messages = TranscriptFromInputs(i - 1)
            /\ c.params.system = SystemContent(conversation_history)
            /\ "tools" \in DOMAIN c.params =>
                  /\ c.params.tools = tools.val
                  /\ c.params.tool_choice = [type |-> "auto"]

\* A request was made in the loop while the log held a record.
C21_Witness ==
    /\ Len(api_calls) >= 2
    /\ ~api_calls[2].final
    /\ api_calls[2].returned # None
    /\ tool_state.tool_calls_made # <<>>
    /\ tool_state.tool_calls_made[1].result_length > 0

\* The message is an assistant message that asks for a tool.
IsToolRequest(m) ==
    /\ m.role = "assistant"
    /\ \E k \in DOMAIN m.content : m.content[k].type = "tool_use"

\* The roles of msgs are user, assistant, user, ..., user, and every
\* assistant message is followed by a user message of tool_result blocks.
WellFormedTranscript(msgs) ==
    /\ msgs # <<>>
    /\ msgs[1].role = "user"
    /\ msgs[Len(msgs)].role = "user"
    /\ \A k \in DOMAIN msgs :
          msgs[k].role = (IF k % 2 = 1 THEN "user" ELSE "assistant")
    /\ \A k \in DOMAIN msgs :
          msgs[k].role = "assistant" =>
              /\ k < Len(msgs)
              /\ msgs[k + 1].role = "user"
              /\ msgs[k + 1].content # <<>>
              /\ \A j \in DOMAIN msgs[k + 1].content :
                    msgs[k + 1].content[j].type = "tool_result"

\* C22 (as claimed): the transcript of every backend request, in the loop or
\* in the synthesis, starts with a user message, alternates user and
\* assistant, ends with a user message, and holds no assistant tool request
\* without the user tool-result message that answers it.
C22_TranscriptAlternates ==
    \A i \in DOMAIN api_calls :
        WellFormedTranscript(api_calls[i].params.messages)

\* C23: a run started with max_tool_rounds = 0 never enters the loop body: it
\* makes one backend call, the synthesis call, which offers no tools even
\* when tools and an executor were supplied and carries the query alone; no
\* tool is executed, and the text of that call is returned.
C23_ZeroRoundsOneCall ==
    (pc \notin {"idle", "tracker"} /\ tool_state.max_rounds = 0) =>
        /\ pc \in {"loop", "final", "returned", "raised"}
        /\ tool_exec_calls = <<>>
        /\ tool_state.tool_calls_made = <<>>
        /\ tool_state.current_round = 0
        /\ exit_via \in {"none", "ceiling"}
        /\ Len(api_calls) <= 1
        /\ Len(api_calls) = 1 <=> Ended
        /\ \A i \in DOMAIN api_calls :
              /\ api_calls[i].final
              /\ ~OffersTools(api_calls[i])
              /\ api_calls[i].params.messages =
                    << [role |-> "user", content |-> query] >>
        /\ pc = "returned" =>
              /\ api_calls[1].returned # None
              /\ result = Some(api_calls[1].returned.val.content[1].text)
        /\ pc = "raised" =>
              /\ api_calls[1].returned = None
              /\ result = None

\* A run with a ceiling of 0 returned its text although tools and an
\* executor were supplied.
C23_Witness ==
    /\ pc = "returned"
    /\ tool_state.max_rounds = 0
    /\ TruthyList(tools)
    /\ TruthyObj(tool_manager)
    /\ Len(api_calls) = 1

\* The execute_tool calls that returned, in the order they were made.
ReturnedExecutions ==
    SelectSeq(tool_exec_calls, LAMBDA e : e.returned # None)

\* The round in which an execute_tool call was made: the value of
\* current_round when the request that asked for it was sent.
RoundOfExecution(e) == api_calls[e.api_calls_before].round

\* C24: the records of tool_calls_made are, one for one and in order, the
\* tool invocations that were executed; each carries the 0-based index of its
\* round (current_round before that round's increment), which lies in
\* 0 .. max_rounds - 1 and never decreases along the log.
C24_RecordsCarryRoundIndex ==
    pc # "tracker" =>
        LET made == tool_state.tool_calls_made
            ran == ReturnedExecutions
        IN  /\ Len(made) = Len(ran)
            /\ \A k \in DOMAIN made :
                  /\ made[k].tool = ran[k].block.name
                  /\ made[k].params = ran[k].block.input
                  /\ made[k].round = RoundOfExecution(ran[k])
                  /\ made[k].round = ran[k].api_calls_before - 1
                  /\ made[k].round \in 0 .. tool_state.max_rounds - 1
                  /\ made[k].round <= tool_state.current_round
                  /\ k > 1 => made[k - 1].round <= made[k].round

\* Round 0 executed two tools and round 1 a third.
C24_Witness ==
    /\ Len(tool_state.tool_calls_made) = 3
    /\ tool_state.tool_calls_made[1].round = 0
    /\ tool_state.tool_calls_made[2].round = 0
    /\ tool_state.tool_calls_made[3].round = 1
    /\ tool_state.current_round = 2

\* The execute_tool calls of the current round that returned.
RanThisRound ==
    SelectSeq(tool_exec_calls,
        LAMBDA e : e.api_calls_before = Len(api_calls) /\ e.returned # None)

\* An execute_tool call that returns, whatever the text, leaves a tool_result
\* block with that text and a log record with its length, and marks the round.
C25_ExecStep ==
    (Len(tool_exec_calls') = Len(tool_exec_calls) + 1
        /\ tool_exec_calls'[Len(tool_exec_calls')].returned # None) =>
        LET e == tool_exec_calls'[Len(tool_exec_calls')]
            made == tool_state'.tool_calls_made
        IN  /\ tool_results' = Append(tool_results,
                   [type |-> "tool_result",
                    tool_use_id |-> e.block.id,
                    content |-> e.returned.val])
            /\ Len(made) = Len(tool_state.tool_calls_made) + 1
            /\ made[Len(made)].result_length =
                   (IF e.returned.val = "" THEN 0 ELSE Len(e.returned.val))
            /\ tools_executed'

\* A round in which a tool returned ends with two more messages, the last
\* one holding a tool_result block per returned tool, and one more round
\* counted; the loop goes on.
C25_RoundStep ==
    (pc = "exec" /\ pc' \notin {"exec", "raised"} /\ RanThisRound # <<>>) =>
        /\ pc' = "loop"
        /\ exit_via' = "none"
        /\ tool_state'.current_round = tool_state.current_round + 1
        /\ Len(messages') = Len(messages) + 2
        /\ messages'[Len(messages')].role = "user"
        /\ messages'[Len(messages')].content =
              [k \in DOMAIN RanThisRound |->
                  [type |-> "tool_result",
                   tool_use_id |-> RanThisRound[k].block.id,
                   content |-> RanThisRound[k].returned.val]]

\* C25: a round counts as tool-executing as soon as one tool-invocation block
\* was executed without raising, whatever text it returned: an empty result
\* still gives a tool_result block, a log record with result_length 0, two
\* more transcript messages and a round-counter increment, and the zero-tools
\* exit is taken only by a round in which no tool returned.
C25_EmptyResultStillCounts ==
    [][C25_ExecStep /\ C25_RoundStep
       /\ (exit_via' = "break" /\ exit_via = "none" => RanThisRound = <<>>)]_vars

\* A round whose every tool returned the empty text was completed.
C25_Witness ==
    /\ pc = "loop"
    /\ tool_state.current_round = 1
    /\ tool_exec_calls # <<>>
    /\ \A j \in DOMAIN tool_exec_calls : tool_exec_calls[j].returned = Some("")
    /\ Len(messages) = 3
    /\ tool_state.tool_calls_made[1].result_length = 0

====
